---- MODULE Spec2Model ----
(***************************************************************************)
(* Model of the google-shortcuts content script (src/content.js): the      *)
(* container wait, the result extractor, the selection controller and the  *)
(* mutation-driven refresh, run against a small mutable document.          *)
(* Spec is the whole script; SpecWait is the script up to the end of main  *)
(* on a page that inserts a second div with the container's id;            *)
(* SpecExtract is extractSearchResults on a family of trees; SpecWrap is   *)
(* the earlier revision of the script (src/unnamed/part_000), whose        *)
(* selection wraps around.                                                 *)
(***************************************************************************)
EXTENDS Integers, Sequences, FiniteSets, TLC

\* ------------------------------------------------------------------ bounds
\* Number of distinct result blocks the page can ever show.
NumEl == 2
\* Number of clock ticks of TickMs a behaviour may take.
MaxTicks == 2
\* Milliseconds one clock tick advances Date.now() by.
TickMs == 500

\* --------------------------------------------------------- program constants
\* The double-press window of the g key, in milliseconds.
GDoublePressMs == 1000
\* Date.now() when the script starts: at least one window after the epoch.
StartTime == GDoublePressMs

Max(a, b) == IF a >= b THEN a ELSE b
Min(a, b) == IF a <= b THEN a ELSE b

\* ------------------------------------------------------------------ document
\* A node of the document: its kind and, for result blocks and what they
\* contain, the number of the block.
Node(k, b) == [k |-> k, b |-> b]
Null == Node("null", 0)
Undefined == Node("undefined", 0)
Html == Node("html", 0)
Body == Node("body", 0)
Wrap == Node("wrap", 0)
SearchDiv == Node("search", 0)
SearchForm == Node("form", 0)
SearchTwin == Node("twin", 0)
Block(b) == Node("block", b)
Heading(b) == Node("h3", b)
Anchor(b) == Node("a", b)

Blocks == 1..NumEl
\* Block 1 is a result without a link inside it; every other block has one.
HasAnchor(b) == b > 1

\* The sequence s has no element twice.
NoDup(s) == \A i, j \in 1..Len(s) : i # j => s[i] # s[j]
\* The contents the container can have: block numbers, in document order.
BlockSeqs == UNION {{s \in [1..n -> Blocks] : NoDup(s)} : n \in 0..NumEl}

BlockNodes(b) ==
  <<Block(b), Heading(b)>> \o (IF HasAnchor(b) THEN <<Anchor(b)>> ELSE <<>>)

RECURSIVE Contents(_)
Contents(blocks) ==
  IF blocks = <<>> THEN <<>>
  ELSE BlockNodes(Head(blocks)) \o Contents(Tail(blocks))

\* The shapes of the page: an empty body, a wrapper div under body without
\* the container, the container inside the wrapper, an element with the
\* container's id that is not a div, that element followed by the wrapper
\* with the container inside it, and the container followed inside the
\* wrapper by a second div with the container's id.
Shapes == {"none", "wrap", "nested", "nondiv", "both", "twins"}
HasContainer(shape) == shape \in {"nested", "both", "twins"}

PageOrder(shape, blocks) ==
  <<Html, Body>>
  \o (IF shape \in {"nondiv", "both"} THEN <<SearchForm>> ELSE <<>>)
  \o (IF shape \in {"wrap", "nested", "both", "twins"} THEN <<Wrap>> ELSE <<>>)
  \o (IF HasContainer(shape) THEN <<SearchDiv>> \o Contents(blocks) ELSE <<>>)
  \o (IF shape = "twins" THEN <<SearchTwin>> ELSE <<>>)

PageParent(n) ==
  CASE n.k = "html" -> Null
    [] n.k = "body" -> Html
    [] n.k = "wrap" -> Body
    [] n.k = "search" -> Wrap
    [] n.k = "form" -> Body
    [] n.k = "twin" -> Wrap
    [] n.k = "block" -> SearchDiv
    [] n.k = "h3" -> Block(n.b)
    [] n.k = "a" -> Block(n.b)

PageTag(n) ==
  CASE n.k = "html" -> "HTML"
    [] n.k = "body" -> "BODY"
    [] n.k = "wrap" -> "DIV"
    [] n.k = "search" -> "DIV"
    [] n.k = "form" -> "FORM"
    [] n.k = "twin" -> "DIV"
    [] n.k = "block" -> "DIV"
    [] n.k = "h3" -> "H3"
    [] n.k = "a" -> "A"

PageId(n) == IF n.k \in {"search", "form", "twin"} THEN "search" ELSE ""
\* The page declares its language on the root; every result block carries
\* its own lang attribute.
PageLang(n) == n.k \in {"html", "block"}

\* The document as the script sees it: the attached elements in document
\* order, and for each its parentElement, tagName, id and lang attribute.
Page(shape, blocks) ==
  LET order == PageOrder(shape, blocks)
      nodes == {order[i] : i \in 1..Len(order)}
  IN [shape |-> shape,
      blocks |-> blocks,
      order |-> order,
      el |-> [n \in nodes |-> [parentElement |-> PageParent(n),
                               tagName |-> PageTag(n),
                               id |-> PageId(n),
                               lang |-> PageLang(n)]]]

Attached(d) == DOMAIN d.el
RangeOf(s) == {s[i] : i \in 1..Len(s)}

\* node instanceof HTMLDivElement
IsDiv(d, n) == n \in Attached(d) /\ d.el[n].tagName = "DIV"

\* element.contains(n), n # element
RECURSIVE IsDescendant(_, _, _)
IsDescendant(d, n, root) ==
  LET p == d.el[n].parentElement
  IN IF p = Null THEN FALSE
     ELSE IF p = root THEN TRUE
     ELSE IsDescendant(d, p, root)

\* root.querySelectorAll(tag): the descendants with that tag, document order.
querySelectorAllTag(d, root, tag) ==
  SelectSeq(d.order, LAMBDA n : d.el[n].tagName = tag /\ IsDescendant(d, n, root))

\* element.querySelector("a"): the first anchor descendant, or Null.
querySelectorA(d, element) ==
  LET as == querySelectorAllTag(d, element, "A")
  IN IF as = <<>> THEN Null ELSE as[1]

\* document.getElementById(id): the first element with the id, or Null.
getElementById(d, id) ==
  LET hits == SelectSeq(d.order, LAMBDA n : d.el[n].id = id)
  IN IF hits = <<>> THEN Null ELSE hits[1]

\* ------------------------------------------------------------------- script
\* A clamp that wraps around instead: past max it yields min, below min max.
clampWrapping(value, min, max) ==
  IF value > max THEN min ELSE IF value < min THEN max ELSE value

\* Math.max(min, Math.min(value, max))
clamp(value, min, max) == Max(min, Min(value, max))

\* array[index] of JavaScript: the entry at a 0-based index, undefined when
\* the index names no entry.
At(array, index) ==
  IF index \in 0..(Len(array) - 1) THEN array[index + 1] ELSE Undefined

\* The upward walk of extractSearchResults from one heading: up the
\* parentElement chain until an element carries a lang attribute, stopping
\* at the element without a parent.
RECURSIVE highestParent(_, _)
highestParent(d, n) ==
  IF d.el[n].lang THEN n
  ELSE IF d.el[n].parentElement = Null THEN n
  ELSE highestParent(d, d.el[n].parentElement)

\* The loop of extractSearchResults over the headings.
RECURSIVE extractLoop(_, _)
extractLoop(d, headings) ==
  IF headings = <<>> THEN <<>>
  ELSE LET hp == highestParent(d, Head(headings))
       IN (IF d.el[hp].tagName # "DIV" THEN <<>> ELSE <<hp>>)
          \o extractLoop(d, Tail(headings))

extractSearchResults(d, searchElement) ==
  extractLoop(d, querySelectorAllTag(d, searchElement, "H3"))

\* What one run of highlightSelected leaves behind: the elements carrying
\* the gscss-highlight class, the scroll statement reached ("top" for
\* window.scrollTo, "intoView" for the scrollIntoView that is made when the
\* element's rectangle lies outside the viewport), the error logged and
\* whether a TypeError was thrown.
Quiet(cls) == [cls |-> cls, scroll |-> "none", log |-> "", threw |-> FALSE]

\* highlightSelected from getBoundingClientRect on.
highlightElement(element, st, d, cls) ==
  IF element = Undefined THEN [Quiet(cls) EXCEPT !.threw = TRUE]
  ELSE
    LET scroll == IF st.selectedIndex = 0 THEN "top" ELSE "intoView"
        highlighted == SelectSeq(d.order, LAMBDA n : n \in cls)
    IN IF Len(highlighted) = 1 /\ highlighted[1] = element
       THEN [Quiet(cls) EXCEPT !.scroll = scroll]
       ELSE [Quiet((cls \ RangeOf(highlighted)) \cup {element})
               EXCEPT !.scroll = scroll]

\* highlightSelected that scrolls to the top for index 0 before it looks at
\* the list.
highlightSelectedScrollFirst(st, d, cls) ==
  IF Len(st.searchResults) = 0
  THEN [Quiet(cls) EXCEPT !.scroll = IF st.selectedIndex = 0
                                     THEN "top" ELSE "none"]
  ELSE
    LET element == At(st.searchResults, st.selectedIndex)
    IN IF element = Undefined
       THEN [Quiet(cls) EXCEPT !.log = "Selected element is undefined"]
       ELSE highlightElement(element, st, d, cls)

highlightSelected(st, d, cls) ==
  IF Len(st.searchResults) = 0 THEN Quiet(cls)
  ELSE
    LET element == At(st.searchResults, st.selectedIndex)
    IN IF element = Undefined
       THEN [Quiet(cls) EXCEPT !.log = "Selected element is undefined"]
       ELSE highlightElement(element, st, d, cls)

\* The page the script runs on, as window.location.
ResultsPage == Node("serp", 0)

\* The side effects of the latest run of a handler: the branch it took
\* ("none" when it took none), the selectedIndex it started from, whether it
\* called preventDefault and highlightSelected, and what that did to the
\* page.
NoEffect ==
  [op |-> "none", from |-> 0, prevented |-> FALSE, hl |-> FALSE,
   scroll |-> "none", log |-> "", threw |-> FALSE, opened |-> Null]

EffectOf(op, st, h, ran) ==
  [op |-> op, from |-> st.selectedIndex, prevented |-> TRUE, hl |-> ran, scroll |-> h.scroll, log |-> h.log,
   threw |-> h.threw, opened |-> Null]

Keys == {"j", "ArrowDown", "k", "ArrowUp", " ", "Enter", "g", "G", "x"}
Events == [key : Keys, metaKey : BOOLEAN, ctrlKey : BOOLEAN, shiftKey : BOOLEAN]
ActiveElementNames == {"BODY", "INPUT", "TEXTAREA"}

Unmodified(key) ==
  [key |-> key, metaKey |-> FALSE, ctrlKey |-> FALSE, shiftKey |-> FALSE]

\* The event with the modifiers the listener never reads for its key left
\* out: it reads metaKey for Space, Enter, g and G, and ctrlKey and shiftKey
\* for g and G.
ReadByListener(event) ==
  [key |-> event.key,
   metaKey |-> event.metaKey /\ event.key \in {" ", "Enter", "g", "G"},
   ctrlKey |-> event.ctrlKey /\ event.key \in {"g", "G"},
   shiftKey |-> event.shiftKey /\ event.key \in {"g", "G"}]

\* The keydown events the listener is run on, each with the tag name of the
\* focused element: every key with every combination of the modifiers the
\* listener reads for it while focus is on the body, and every key without
\* modifiers while focus is in an input or a textarea.
KeyInputs ==
  {<<ReadByListener(event), "BODY">> : event \in Events}
  \cup {<<Unmodified(key), name>> : key \in Keys, name \in {"INPUT", "TEXTAREA"}}

\* The world a handler runs in and changes.
World(st, lastG, cls, loc) ==
  [state |-> st, lastGKeyPress |-> lastG, cls |-> cls, location |-> loc]

\* handleKeyDown, the j / ArrowDown case.
keyNext(w, d) ==
  LET st == [w.state EXCEPT !.selectedIndex =
               clamp(@ + 1, 0, Len(w.state.searchResults) - 1)]
      h == highlightSelected(st, d, w.cls)
  IN [w EXCEPT !.state = st, !.cls = h.cls]
     @@ [effect |-> EffectOf("next", w.state, h, TRUE)]

\* handleKeyDown, the k / ArrowUp case.
keyPrev(w, d) ==
  LET st == [w.state EXCEPT !.selectedIndex =
               clamp(@ - 1, 0, Len(w.state.searchResults) - 1)]
      h == highlightSelected(st, d, w.cls)
  IN [w EXCEPT !.state = st, !.cls = h.cls]
     @@ [effect |-> EffectOf("prev", w.state, h, TRUE)]

\* The Space / Enter case without the check that a link was found.
keyActivateUnchecked(event, w, d) ==
  LET element == At(w.state.searchResults, w.state.selectedIndex)
      e0 == EffectOf("activate", w.state, Quiet(w.cls), FALSE)
  IN IF element = Undefined
     THEN w @@ [effect |-> [e0 EXCEPT !.log = "Selected element is undefined"]]
     ELSE
       LET link == querySelectorA(d, element)
       IN IF event.metaKey
          THEN w @@ [effect |-> [e0 EXCEPT !.opened = link]]
          ELSE [w EXCEPT !.location = link] @@ [effect |-> e0]

\* handleKeyDown, the Space / Enter case.
keyActivate(event, w, d) ==
  LET element == At(w.state.searchResults, w.state.selectedIndex)
      e0 == EffectOf("activate", w.state, Quiet(w.cls), FALSE)
  IN IF element = Undefined
     THEN w @@ [effect |-> [e0 EXCEPT !.log = "Selected element is undefined"]]
     ELSE
       LET link == querySelectorA(d, element)
       IN IF link = Null
          THEN w @@ [effect |-> [e0 EXCEPT !.log = "Link not found"]]
          ELSE IF event.metaKey
          THEN w @@ [effect |-> [e0 EXCEPT !.opened = link]]
          ELSE [w EXCEPT !.location = link] @@ [effect |-> e0]

\* The G / g case with the last entry taken to be at index length.
keyGLastOffByOne(event, w, d, nowMs) ==
  IF event.metaKey \/ event.ctrlKey
  THEN w @@ [effect |-> [EffectOf("reserved", w.state, Quiet(w.cls), FALSE)
                           EXCEPT !.prevented = FALSE]]
  ELSE IF event.shiftKey
  THEN LET st == [w.state EXCEPT !.selectedIndex = Len(w.state.searchResults)]
           h == highlightSelected(st, d, w.cls)
       IN [w EXCEPT !.state = st, !.cls = h.cls]
          @@ [effect |-> EffectOf("last", w.state, h, TRUE)]
  ELSE IF w.lastGKeyPress + GDoublePressMs > nowMs
  THEN LET st == [w.state EXCEPT !.selectedIndex = 0]
           h == highlightSelected(st, d, w.cls)
       IN [w EXCEPT !.state = st, !.cls = h.cls]
          @@ [effect |-> EffectOf("first", w.state, h, TRUE)]
  ELSE [w EXCEPT !.lastGKeyPress = nowMs]
       @@ [effect |-> EffectOf("arm", w.state, Quiet(w.cls), FALSE)]

\* The G / g case with the comparison of the double-press window reversed.
keyGWindowReversed(event, w, d, nowMs) ==
  IF event.metaKey \/ event.ctrlKey
  THEN w @@ [effect |-> [EffectOf("reserved", w.state, Quiet(w.cls), FALSE)
                           EXCEPT !.prevented = FALSE]]
  ELSE IF event.shiftKey
  THEN LET st == [w.state EXCEPT !.selectedIndex = Len(w.state.searchResults) - 1]
           h == highlightSelected(st, d, w.cls)
       IN [w EXCEPT !.state = st, !.cls = h.cls]
          @@ [effect |-> EffectOf("last", w.state, h, TRUE)]
  ELSE IF w.lastGKeyPress + GDoublePressMs < nowMs
  THEN LET st == [w.state EXCEPT !.selectedIndex = 0]
           h == highlightSelected(st, d, w.cls)
       IN [w EXCEPT !.state = st, !.cls = h.cls]
          @@ [effect |-> EffectOf("first", w.state, h, TRUE)]
  ELSE [w EXCEPT !.lastGKeyPress = nowMs]
       @@ [effect |-> EffectOf("arm", w.state, Quiet(w.cls), FALSE)]

\* The G / g case without the check for meta and ctrl.
keyGUnreserved(event, w, d, nowMs) ==
  IF event.shiftKey
  THEN LET st == [w.state EXCEPT !.selectedIndex = Len(w.state.searchResults) - 1]
           h == highlightSelected(st, d, w.cls)
       IN [w EXCEPT !.state = st, !.cls = h.cls]
          @@ [effect |-> EffectOf("last", w.state, h, TRUE)]
  ELSE IF w.lastGKeyPress + GDoublePressMs > nowMs
  THEN LET st == [w.state EXCEPT !.selectedIndex = 0]
           h == highlightSelected(st, d, w.cls)
       IN [w EXCEPT !.state = st, !.cls = h.cls]
          @@ [effect |-> EffectOf("first", w.state, h, TRUE)]
  ELSE [w EXCEPT !.lastGKeyPress = nowMs]
       @@ [effect |-> EffectOf("arm", w.state, Quiet(w.cls), FALSE)]

\* The G / g case in which a single g already jumps to the first entry.
keyGArmJumps(event, w, d, nowMs) ==
  IF event.metaKey \/ event.ctrlKey
  THEN w @@ [effect |-> [EffectOf("reserved", w.state, Quiet(w.cls), FALSE)
                           EXCEPT !.prevented = FALSE]]
  ELSE IF event.shiftKey
  THEN LET st == [w.state EXCEPT !.selectedIndex = Len(w.state.searchResults) - 1]
           h == highlightSelected(st, d, w.cls)
       IN [w EXCEPT !.state = st, !.cls = h.cls]
          @@ [effect |-> EffectOf("last", w.state, h, TRUE)]
  ELSE LET st == [w.state EXCEPT !.selectedIndex = 0]
           h == highlightSelected(st, d, w.cls)
           op == IF w.lastGKeyPress + GDoublePressMs > nowMs
                 THEN "first" ELSE "arm"
       IN [w EXCEPT !.state = st, !.cls = h.cls,
                    !.lastGKeyPress = IF op = "arm" THEN nowMs ELSE @]
          @@ [effect |-> EffectOf(op, w.state, h, TRUE)]

\* handleKeyDown, the G / g case.
keyG(event, w, d, nowMs) ==
  IF event.metaKey \/ event.ctrlKey
  THEN w @@ [effect |-> [EffectOf("reserved", w.state, Quiet(w.cls), FALSE)
                           EXCEPT !.prevented = FALSE]]
  ELSE IF event.shiftKey
  THEN LET st == [w.state EXCEPT !.selectedIndex = Len(w.state.searchResults) - 1]
           h == highlightSelected(st, d, w.cls)
       IN [w EXCEPT !.state = st, !.cls = h.cls]
          @@ [effect |-> EffectOf("last", w.state, h, TRUE)]
  ELSE IF w.lastGKeyPress + GDoublePressMs > nowMs
  THEN LET st == [w.state EXCEPT !.selectedIndex = 0]
           h == highlightSelected(st, d, w.cls)
       IN [w EXCEPT !.state = st, !.cls = h.cls]
          @@ [effect |-> EffectOf("first", w.state, h, TRUE)]
  ELSE [w EXCEPT !.lastGKeyPress = nowMs]
       @@ [effect |-> EffectOf("arm", w.state, Quiet(w.cls), FALSE)]

\* handleKeyDown with a focus check that knows INPUT only.
handleKeyDownInputOnly(event, activeElementName, w, d, nowMs) ==
  IF activeElementName = "INPUT"
  THEN w @@ [effect |-> [EffectOf("input", w.state, Quiet(w.cls), FALSE)
                           EXCEPT !.prevented = FALSE]]
  ELSE CASE event.key \in {"j", "ArrowDown"} -> keyNext(w, d)
         [] event.key \in {"k", "ArrowUp"} -> keyPrev(w, d)
         [] event.key \in {" ", "Enter"} -> keyActivate(event, w, d)
         [] event.key \in {"G", "g"} -> keyG(event, w, d, nowMs)
         [] OTHER -> w @@ [effect |-> NoEffect]

\* handleKeyDown(event), with the tag name of document.activeElement.
handleKeyDown(event, activeElementName, w, d, nowMs) ==
  IF activeElementName = "INPUT" \/ activeElementName = "TEXTAREA"
  THEN w @@ [effect |-> [EffectOf("input", w.state, Quiet(w.cls), FALSE)
                           EXCEPT !.prevented = FALSE]]
  ELSE CASE event.key \in {"j", "ArrowDown"} -> keyNext(w, d)
         [] event.key \in {"k", "ArrowUp"} -> keyPrev(w, d)
         [] event.key \in {" ", "Enter"} -> keyActivate(event, w, d)
         [] event.key \in {"G", "g"} -> keyG(event, w, d, nowMs)
         [] OTHER -> w @@ [effect |-> NoEffect]

\* handleSearchResultsChanged that highlights after every refresh.
handleSearchResultsChangedAlways(searchElement, w, d) ==
  LET searchResults == extractSearchResults(d, searchElement)
      st == [w.state EXCEPT !.searchResults = searchResults]
      h == highlightSelected(st, d, w.cls)
  IN [w EXCEPT !.state = st, !.cls = h.cls]
     @@ [effect |-> [EffectOf("refresh", w.state, h, TRUE)
                       EXCEPT !.prevented = FALSE]]

\* handleSearchResultsChanged(searchElement, mutationList, observer)
handleSearchResultsChanged(searchElement, w, d) ==
  LET searchResults == extractSearchResults(d, searchElement)
      shouldHighlight == Len(w.state.searchResults) <= w.state.selectedIndex
      st == [w.state EXCEPT !.searchResults = searchResults]
      h == IF shouldHighlight THEN highlightSelected(st, d, w.cls)
           ELSE Quiet(w.cls)
  IN [w EXCEPT !.state = st, !.cls = h.cls]
     @@ [effect |-> [EffectOf("refresh", w.state, h, shouldHighlight)
                       EXCEPT !.prevented = FALSE]]

\* waitForSearchElement that resolves with whatever element has the id.
waitForSearchElementAnyTag(d) ==
  LET alreadyExists == getElementById(d, "search")
  IN IF alreadyExists # Null
     THEN [observer |-> "disconnected",
           promise |-> [settled |-> TRUE, value |-> alreadyExists]]
     ELSE [observer |-> "connected",
           promise |-> [settled |-> FALSE, value |-> Null]]

\* waitForSearchElement up to its return: the document-wide observer is
\* connected, then disconnected again when the element already exists; the
\* promise is resolved with the element, with null when it is no div, or
\* left pending.
waitForSearchElement(d) ==
  LET alreadyExists == getElementById(d, "search")
  IN IF alreadyExists # Null
     THEN [observer |-> "disconnected",
           promise |-> [settled |-> TRUE,
                        value |-> IF IsDiv(d, alreadyExists)
                                  THEN alreadyExists ELSE Null]]
     ELSE [observer |-> "connected",
           promise |-> [settled |-> FALSE, value |-> Null]]

\* A resolve whose latest call wins.
resolveLastWins(p, value) == [settled |-> TRUE, value |-> value]

\* resolve(value) of a promise: the first call settles it, later calls do
\* nothing.
resolve(p, value) == IF p.settled THEN p ELSE [settled |-> TRUE, value |-> value]

\* The callback of the document-wide observer on one added node.
onAddedNode(d, node, r) ==
  IF ~IsDiv(d, node) THEN r
  ELSE IF d.el[node].id = "search"
  THEN [observer |-> "disconnected", promise |-> resolve(r.promise, node)]
  ELSE r

\* The callback's loops: every added node of every mutation record.
RECURSIVE onAddedNodes(_, _, _)
onAddedNodes(d, nodes, r) ==
  IF nodes = <<>> THEN r
  ELSE onAddedNodes(d, Tail(nodes), onAddedNode(d, Head(nodes), r))

RECURSIVE onMutationList(_, _, _)
onMutationList(d, mutationList, r) ==
  IF mutationList = <<>> THEN r
  ELSE onMutationList(d, Tail(mutationList),
                      onAddedNodes(d, Head(mutationList), r))

\* ---------------------------------------------------------------------- state
VARIABLES
  page,              \* the shape of the document and the blocks it shows
  classList,         \* the elements carrying the class gscss-highlight
  state,             \* state: searchResults and selectedIndex
  lastGKeyPress,     \* Date.now() of the g press that armed the double press
  now,               \* Date.now()
  location,          \* window.location.href
  docObserver,       \* the observer of waitForSearchElement
  docRecords,        \* mutation records queued for docObserver
  promise,           \* the promise of waitForSearchElement
  pc,                \* where main is: awaiting, active (listeners on) or inert
  effect,            \* the side effects of the latest run of a handler
  plainGAt,          \* history: Date.now() of the latest keydown when that
                     \* was a plain g outside an input, else 0
  gPressAt           \* history: Date.now() of the latest plain g pressed
                     \* outside an input, 0 before the first one

vars == <<page, classList, state, lastGKeyPress, now, location, docObserver,
          docRecords, promise, pc, effect, plainGAt, gPressAt>>

\* The document of the current state.
document == Page(page.shape, page.blocks)

\* The pages the script can start on: every shape but the one with two
\* divs of the container's id, which arises by insertion only.
Pages ==
  {[shape |-> s, blocks |-> <<>>] : s \in {t \in Shapes : ~HasContainer(t)}}
  \cup {[shape |-> s, blocks |-> b] :
          s \in {t \in Shapes \ {"twins"} : HasContainer(t)},
          b \in BlockSeqs}

\* The script starts: state and lastGKeyPress are initialised, main calls
\* waitForSearchElement and awaits its promise.
Init ==
  /\ page \in Pages
  /\ classList = {}
  /\ state = [searchResults |-> <<>>, selectedIndex |-> 0]
  /\ lastGKeyPress = 0
  /\ now = StartTime
  /\ location = ResultsPage
  /\ \E r \in {waitForSearchElement(document)} :
       /\ docObserver = r.observer
       /\ promise = r.promise
  /\ docRecords = <<>>
  /\ pc = "awaiting"
  /\ effect = NoEffect
  /\ plainGAt = 0
  /\ gPressAt = 0

\* The page is still loaded: the script and its listeners are alive.
Loaded == location = ResultsPage

\* No microtask is queued: the observer callback and the continuation of
\* main run before the next task.
Idle ==
  /\ docRecords = <<>>
  /\ ~(pc = "awaiting" /\ promise.settled)

\* The page inserts a subtree into the document, queueing one mutation
\* record that lists the root of the subtree as the added node.
Insert(shape, blocks, added) ==
  /\ Loaded
  /\ page' = [shape |-> shape, blocks |-> blocks]
  /\ docRecords' = IF docObserver = "connected"
                   THEN Append(docRecords, <<added>>) ELSE docRecords
  /\ UNCHANGED <<classList, state, lastGKeyPress, now, location, docObserver,
                 promise, pc, effect, plainGAt, gPressAt>>

\* A wrapper div without the container is inserted under body.
InsertWrapper ==
  /\ page.shape = "none"
  /\ Insert("wrap", <<>>, Wrap)

\* The container is inserted, on its own, into the wrapper that is already
\* there.
InsertContainer ==
  /\ page.shape = "wrap"
  /\ \E blocks \in BlockSeqs : Insert("nested", blocks, SearchDiv)

\* A wrapper div that already holds the container is inserted under body.
InsertSubtree ==
  /\ page.shape = "none"
  /\ \E blocks \in BlockSeqs : Insert("nested", blocks, Wrap)

\* An element with the container's id that is no div is inserted.
InsertNonDiv ==
  /\ page.shape = "none"
  /\ Insert("nondiv", <<>>, SearchForm)

\* A wrapper div that holds the container is inserted after the element
\* that has the container's id and is no div.
InsertBeside ==
  /\ page.shape = "nondiv"
  /\ \E blocks \in BlockSeqs : Insert("both", blocks, Wrap)

\* The callback of the document-wide observer runs on the queued records.
DocObserverCallback ==
  /\ Loaded
  /\ docRecords # <<>>
  /\ \E r \in {onMutationList(document, docRecords,
                              [observer |-> docObserver, promise |-> promise])} :
       /\ docObserver' = r.observer
       /\ promise' = r.promise
  /\ docRecords' = <<>>
  /\ UNCHANGED <<page, classList, state, lastGKeyPress, now, location, pc,
                 effect, plainGAt, gPressAt>>

\* main after its await: with null it logs and returns, otherwise it
\* registers the keydown listener and the observer of the container.
MainResume ==
  /\ Loaded
  /\ pc = "awaiting"
  /\ promise.settled
  /\ pc' = IF promise.value = Null THEN "inert" ELSE "active"
  /\ effect' = [NoEffect EXCEPT !.log = IF promise.value = Null
                                        THEN "Search element not found" ELSE ""]
  /\ UNCHANGED <<page, classList, state, lastGKeyPress, now, location,
                 docObserver, docRecords, promise, plainGAt, gPressAt>>

\* The page changes what the container holds while no observer watches it.
MutateUnobserved ==
  /\ Loaded
  /\ pc # "active"
  /\ HasContainer(page.shape)
  /\ \E blocks \in BlockSeqs \ {page.blocks} :
       page' = [page EXCEPT !.blocks = blocks]
  /\ UNCHANGED <<classList, state, lastGKeyPress, now, location, docObserver,
                 docRecords, promise, pc, effect, plainGAt, gPressAt>>

\* The page mutates the subtree of the observed container, leaving it with
\* some blocks (the same ones when the mutation is elsewhere in the
\* subtree), and the observer's callback, handleSearchResultsChanged, runs
\* before the next task, on the document as the mutations left it.
SearchResultsChanged ==
  /\ Loaded
  /\ pc = "active"
  /\ \E blocks \in BlockSeqs :
       /\ page' = [page EXCEPT !.blocks = blocks]
       /\ \E r \in {handleSearchResultsChanged(
                      promise.value,
                      World(state, lastGKeyPress, classList, location),
                      Page(page.shape, blocks))} :
            /\ state' = r.state
            /\ classList' = r.cls
            /\ effect' = r.effect
  /\ UNCHANGED <<lastGKeyPress, now, location, docObserver, docRecords,
                 promise, pc, plainGAt, gPressAt>>

\* A keydown event reaches the listener.
KeyDown ==
  /\ Loaded
  /\ pc = "active"
  /\ Idle
  /\ \E d \in {document}, input \in KeyInputs :
       \E r \in {handleKeyDown(
                   input[1], input[2],
                   World(state, lastGKeyPress, classList, location), d, now)} :
         /\ state' = r.state
         /\ lastGKeyPress' = r.lastGKeyPress
         /\ classList' = r.cls
         /\ location' = r.location
         /\ effect' = r.effect
         /\ plainGAt' = IF r.effect.op \in {"first", "arm"} THEN now ELSE 0
         /\ gPressAt' = IF r.effect.op \in {"first", "arm"}
                        THEN now ELSE gPressAt
  /\ UNCHANGED <<page, now, docObserver, docRecords, promise, pc>>

\* Time passes.
Tick ==
  /\ Loaded
  /\ now + TickMs <= StartTime + MaxTicks * TickMs
  /\ now' = now + TickMs
  /\ UNCHANGED <<page, classList, state, lastGKeyPress, location, docObserver,
                 docRecords, promise, pc, effect, plainGAt, gPressAt>>

Next ==
  \/ InsertWrapper
  \/ InsertContainer
  \/ InsertSubtree
  \/ InsertNonDiv
  \/ InsertBeside
  \/ DocObserverCallback
  \/ MainResume
  \/ MutateUnobserved
  \/ SearchResultsChanged
  \/ KeyDown
  \/ Tick

Spec == Init /\ [][Next]_vars

\* KeyInputs leaves out no behaviour of the listener: what handleKeyDown does
\* on any event with any focused element, it does on one of KeyInputs.
KeyInputsCover ==
  (pc = "active" /\ Loaded)
  => \A event \in Events, name \in ActiveElementNames :
       \E input \in KeyInputs :
         handleKeyDown(event, name,
                       World(state, lastGKeyPress, classList, location),
                       document, now)
         = handleKeyDown(input[1], input[2],
                         World(state, lastGKeyPress, classList, location),
                         document, now)

\* ------------------------------------------- the wrap revision (part_000)
\* The numbers state.selectedIndex takes in the revision that wraps around:
\* an integer, or NaN.
Num(n) == [nan |-> FALSE, n |-> n]
NaN == [nan |-> TRUE, n |-> 0]

\* a + b of JavaScript.
jsAdd(a, b) == IF a.nan \/ b.nan THEN NaN ELSE Num(a.n + b.n)

\* a % b of JavaScript: NaN when b is 0, otherwise the remainder with the
\* sign of a.
jsRem(a, b) ==
  IF a.nan \/ b.nan \/ b.n = 0 THEN NaN
  ELSE LET m == IF b.n < 0 THEN 0 - b.n ELSE b.n
       IN IF a.n >= 0 THEN Num(a.n % m) ELSE Num(0 - ((0 - a.n) % m))

\* array[index] with a JavaScript number as the index.
AtNum(array, index) == IF index.nan THEN Undefined ELSE At(array, index.n)

\* highlightSelected of the wrap revision.
highlightSelectedWrap(st, d, cls) ==
  LET element == AtNum(st.searchResults, st.selectedIndex)
  IN IF element = Undefined
     THEN [Quiet(cls) EXCEPT !.log = "Selected element is undefined"]
     ELSE
       LET highlighted == SelectSeq(d.order, LAMBDA n : n \in cls)
       IN IF Len(highlighted) = 1 /\ highlighted[1] = element
          THEN [Quiet(cls) EXCEPT !.scroll = "intoView"]
          ELSE [Quiet((cls \ RangeOf(highlighted)) \cup {element})
                  EXCEPT !.scroll = "intoView"]

\* handleKeyDown of the wrap revision, the j / ArrowDown case.
keyNextWrap(w, d) ==
  LET length == Num(Len(w.state.searchResults))
      st == [w.state EXCEPT !.selectedIndex = jsRem(jsAdd(@, Num(1)), length)]
      h == highlightSelectedWrap(st, d, w.cls)
  IN [w EXCEPT !.state = st, !.cls = h.cls]
     @@ [effect |-> EffectOf("next", w.state, h, TRUE)]

\* handleKeyDown of the wrap revision, the k / ArrowUp case.
keyPrevWrap(w, d) ==
  LET length == Num(Len(w.state.searchResults))
      st == [w.state EXCEPT !.selectedIndex =
               jsRem(jsAdd(jsAdd(@, Num(-1)), length), length)]
      h == highlightSelectedWrap(st, d, w.cls)
  IN [w EXCEPT !.state = st, !.cls = h.cls]
     @@ [effect |-> EffectOf("prev", w.state, h, TRUE)]

\* handleKeyDown of the wrap revision, the Space / Enter case.
keyActivateWrap(event, w, d) ==
  LET element == AtNum(w.state.searchResults, w.state.selectedIndex)
      e0 == EffectOf("activate", w.state, Quiet(w.cls), FALSE)
  IN IF element = Undefined
     THEN w @@ [effect |-> [e0 EXCEPT !.log = "Selected element is undefined"]]
     ELSE
       LET link == querySelectorA(d, element)
       IN IF link = Null
          THEN w @@ [effect |-> [e0 EXCEPT !.log = "Link not found"]]
          ELSE IF event.metaKey
          THEN w @@ [effect |-> [e0 EXCEPT !.opened = link]]
          ELSE [w EXCEPT !.location = link] @@ [effect |-> e0]

\* handleKeyDown(event) of the wrap revision.
handleKeyDownWrap(event, activeElementName, w, d) ==
  IF activeElementName = "INPUT" \/ activeElementName = "TEXTAREA"
  THEN w @@ [effect |-> [EffectOf("input", w.state, Quiet(w.cls), FALSE)
                           EXCEPT !.prevented = FALSE]]
  ELSE CASE event.key \in {"j", "ArrowDown"} -> keyNextWrap(w, d)
         [] event.key \in {"k", "ArrowUp"} -> keyPrevWrap(w, d)
         [] event.key \in {" ", "Enter"} -> keyActivateWrap(event, w, d)
         [] OTHER -> w @@ [effect |-> NoEffect]

\* handleSearchResultsChanged of the wrap revision.
handleSearchResultsChangedWrap(searchElement, w, d) ==
  LET searchResults == extractSearchResults(d, searchElement)
      st == [w.state EXCEPT !.searchResults = searchResults]
      h == highlightSelectedWrap(st, d, w.cls)
  IN [w EXCEPT !.state = st, !.cls = h.cls]
     @@ [effect |-> [EffectOf("refresh", w.state, h, TRUE)
                       EXCEPT !.prevented = FALSE]]

\* The wrap revision starts: as Init, with selectedIndex the number 0.
InitWrap ==
  /\ page \in Pages
  /\ classList = {}
  /\ state = [searchResults |-> <<>>, selectedIndex |-> Num(0)]
  /\ lastGKeyPress = 0
  /\ now = StartTime
  /\ location = ResultsPage
  /\ \E r \in {waitForSearchElement(document)} :
       /\ docObserver = r.observer
       /\ promise = r.promise
  /\ docRecords = <<>>
  /\ pc = "awaiting"
  /\ effect = NoEffect
  /\ plainGAt = 0
  /\ gPressAt = 0

\* The observed container is mutated and the wrap revision's
\* handleSearchResultsChanged runs.
SearchResultsChangedWrap ==
  /\ Loaded
  /\ pc = "active"
  /\ \E blocks \in BlockSeqs :
       /\ page' = [page EXCEPT !.blocks = blocks]
       /\ \E r \in {handleSearchResultsChangedWrap(
                      promise.value,
                      World(state, lastGKeyPress, classList, location),
                      Page(page.shape, blocks))} :
            /\ state' = r.state
            /\ classList' = r.cls
            /\ effect' = r.effect
  /\ UNCHANGED <<lastGKeyPress, now, location, docObserver, docRecords,
                 promise, pc, plainGAt, gPressAt>>

\* A keydown event reaches the listener of the wrap revision.
KeyDownWrap ==
  /\ Loaded
  /\ pc = "active"
  /\ Idle
  /\ \E d \in {document}, input \in KeyInputs :
       \E r \in {handleKeyDownWrap(
                   input[1], input[2],
                   World(state, lastGKeyPress, classList, location), d)} :
         /\ state' = r.state
         /\ classList' = r.cls
         /\ location' = r.location
         /\ effect' = r.effect
  /\ UNCHANGED <<page, lastGKeyPress, now, docObserver, docRecords, promise,
                 pc, plainGAt, gPressAt>>

NextWrap ==
  \/ InsertWrapper
  \/ InsertContainer
  \/ InsertSubtree
  \/ InsertNonDiv
  \/ InsertBeside
  \/ DocObserverCallback
  \/ MainResume
  \/ MutateUnobserved
  \/ SearchResultsChangedWrap
  \/ KeyDownWrap

SpecWrap == InitWrap /\ [][NextWrap]_vars

\* ------------------------------------------- the wait with a second match
\* The page inserts several nodes under one parent in one operation,
\* queueing one mutation record that lists them as its added nodes.
InsertNodes(shape, blocks, added) ==
  /\ Loaded
  /\ page' = [shape |-> shape, blocks |-> blocks]
  /\ docRecords' = IF docObserver = "connected"
                   THEN Append(docRecords, added) ELSE docRecords
  /\ UNCHANGED <<classList, state, lastGKeyPress, now, location, docObserver,
                 promise, pc, effect, plainGAt, gPressAt>>

\* A second div with the container's id is inserted into the wrapper,
\* after the container.
InsertTwin ==
  /\ page.shape = "nested"
  /\ InsertNodes("twins", page.blocks, <<SearchTwin>>)

\* The container and a second div with its id are inserted into the
\* wrapper together, as one fragment.
InsertPair ==
  /\ page.shape = "wrap"
  /\ \E blocks \in BlockSeqs :
       InsertNodes("twins", blocks, <<SearchDiv, SearchTwin>>)

\* The script up to the end of main, on a page that may insert a second
\* div with the container's id.
NextWait ==
  \/ InsertWrapper
  \/ InsertContainer
  \/ InsertSubtree
  \/ InsertNonDiv
  \/ InsertBeside
  \/ InsertTwin
  \/ InsertPair
  \/ DocObserverCallback
  \/ MainResume
  \/ MutateUnobserved
  \/ Tick

SpecWait == Init /\ [][NextWait]_vars

\* --------------------------------------- extractSearchResults on any tree
\* A second heading inside a result block.
Heading2(b) == Node("h3x", b)
\* The tags a result block can have.
BlockTags == {"DIV", "SECTION"}

\* The elements of a tree that can carry a lang attribute: the root of the
\* document, the wrapper, the container, the blocks and the first heading.
LangCandidates(attached, blocks) ==
  (IF attached THEN {Html} ELSE {})
  \cup {Wrap, SearchDiv}
  \cup {Block(blocks[i]) : i \in 1..Len(blocks)}
  \cup (IF blocks = <<>> THEN {} ELSE {Heading(blocks[1])})

\* The trees the extractor is run on: the container inside the wrapper,
\* the wrapper under body or detached from the document (then it is the
\* element without a parent); in the container the blocks, each a DIV or a
\* SECTION with a heading, the first block with one or two headings; any
\* of the elements with a lang attribute.
Trees ==
  UNION {{[shape |-> "tree", blocks |-> blocks, attached |-> attached,
           tags |-> tags, lang |-> lang, second |-> second] :
            tags \in [RangeOf(blocks) -> BlockTags],
            lang \in SUBSET LangCandidates(attached, blocks),
            second \in IF blocks = <<>> THEN {FALSE} ELSE BOOLEAN} :
         attached \in BOOLEAN, blocks \in BlockSeqs}

RECURSIVE TreeContents(_, _)
TreeContents(blocks, second) ==
  IF blocks = <<>> THEN <<>>
  ELSE <<Block(Head(blocks)), Heading(Head(blocks))>>
       \o (IF second THEN <<Heading2(Head(blocks))>> ELSE <<>>)
       \o TreeContents(Tail(blocks), FALSE)

TreeParent(t, n) ==
  CASE n.k = "html" -> Null
    [] n.k = "body" -> Html
    [] n.k = "wrap" -> IF t.attached THEN Body ELSE Null
    [] n.k = "search" -> Wrap
    [] n.k = "block" -> SearchDiv
    [] n.k \in {"h3", "h3x"} -> Block(n.b)

TreeTag(t, n) ==
  CASE n.k = "html" -> "HTML"
    [] n.k = "body" -> "BODY"
    [] n.k \in {"wrap", "search"} -> "DIV"
    [] n.k = "block" -> t.tags[n.b]
    [] n.k \in {"h3", "h3x"} -> "H3"

\* The tree as the script sees it.
TreeDoc(t) ==
  LET order == (IF t.attached THEN <<Html, Body>> ELSE <<>>)
               \o <<Wrap, SearchDiv>> \o TreeContents(t.blocks, t.second)
      nodes == {order[i] : i \in 1..Len(order)}
  IN [order |-> order,
      el |-> [n \in nodes |-> [parentElement |-> TreeParent(t, n),
                               tagName |-> TreeTag(t, n),
                               id |-> PageId(n),
                               lang |-> n \in t.lang]]]

\* The script holds a container in some tree and has extracted nothing.
InitExtract ==
  /\ page \in Trees
  /\ classList = {}
  /\ state = [searchResults |-> <<>>, selectedIndex |-> 0]
  /\ lastGKeyPress = 0
  /\ now = StartTime
  /\ location = ResultsPage
  /\ docObserver = "disconnected"
  /\ promise = [settled |-> TRUE, value |-> SearchDiv]
  /\ docRecords = <<>>
  /\ pc = "active"
  /\ effect = NoEffect
  /\ plainGAt = 0
  /\ gPressAt = 0

\* extractSearchResults runs on the container and its result is stored.
Extract ==
  /\ effect.op = "none"
  /\ state' = [state EXCEPT !.searchResults =
                 extractSearchResults(TreeDoc(page), promise.value)]
  /\ effect' = [NoEffect EXCEPT !.op = "extract"]
  /\ UNCHANGED <<page, classList, lastGKeyPress, now, location, docObserver,
                 docRecords, promise, pc, plainGAt, gPressAt>>

NextExtract == Extract

SpecExtract == InitExtract /\ [][NextExtract]_vars

\* --------------------------------------------------------------- properties
results == state.searchResults
selectedIndex == state.selectedIndex

\* The elements of the document that carry the highlight marker.
MarkedInDocument == {n \in Attached(document) : n \in classList}

\* The result blocks as the extractor is to list them: one per block of the
\* container, in document order.
EntriesOf(blocks) == [i \in 1..Len(blocks) |-> Block(blocks[i])]

\* This step is a run of a handler (time does not pass inside one) that
\* took the branch op.
Ran(op) == now' = now /\ effect'.op = op

\* C1: whenever state.searchResults is non-empty,
\* 0 <= selectedIndex < searchResults.length.
C1_IndexInRange ==
  Len(results) > 0 => 0 <= selectedIndex /\ selectedIndex < Len(results)

\* C2: on a non-empty list with selectedIndex in range, next sets
\* selectedIndex to min(selectedIndex + 1, length - 1) and prev sets it to
\* max(selectedIndex - 1, 0); the list is left alone, the index stays in
\* range and never wraps.
C2_NextPrevClamp ==
  [][(/\ Ran("next") \/ Ran("prev")
      /\ Len(results) > 0
      /\ selectedIndex \in 0..(Len(results) - 1))
     => /\ state'.searchResults = results
        /\ Ran("next") =>
             state'.selectedIndex = Min(selectedIndex + 1, Len(results) - 1)
        /\ Ran("prev") => state'.selectedIndex = Max(selectedIndex - 1, 0)
        /\ state'.selectedIndex \in 0..(Len(results) - 1)]_vars

\* next was pressed on the last entry of a list of two or more and the
\* index stayed there.
C2_Witness ==
  /\ effect.op = "next"
  /\ Len(results) >= 2
  /\ effect.from = Len(results) - 1
  /\ selectedIndex = Len(results) - 1

\* C3: on a non-empty list, whatever selectedIndex was, first leaves
\* selectedIndex at 0 and last leaves it at length - 1, and the entry at
\* that index is then the one element of the document that is highlighted.
C3_FirstLast ==
  (effect.op \in {"first", "last"} /\ Len(results) > 0)
  => /\ selectedIndex = IF effect.op = "first" THEN 0 ELSE Len(results) - 1
     /\ effect.hl
     /\ ~effect.threw
     /\ MarkedInDocument = {At(results, selectedIndex)}

\* first jumped to the top from an index past the end of the list.
C3_Witness ==
  /\ effect.op = "first"
  /\ Len(results) > 0
  /\ effect.from >= Len(results)
  /\ selectedIndex = 0

\* C4: when the latest keydown was a plain g outside an input and the next
\* keydown is one too, handled less than 1000 ms later, selectedIndex is 0
\* after the second.
C4_DoublePress ==
  [][(/\ Ran("first") \/ Ran("arm")
      /\ plainGAt # 0
      /\ now - plainGAt < GDoublePressMs)
     => state'.selectedIndex = 0]_vars

\* A plain g, pressed after and within 1000 ms of the plain g before it,
\* moved the selection from a later entry to the first.
C4_Witness ==
  /\ effect.op = "first"
  /\ plainGAt = now
  /\ lastGKeyPress < now
  /\ effect.from > 0
  /\ selectedIndex = 0

\* C5: an activate key changes neither selectedIndex nor the result list,
\* and it changes window.location or opens a tab only if
\* results[selectedIndex] exists and has an anchor inside it, and then to
\* that anchor's href.
C5_Activate ==
  [][Ran("activate")
     => /\ state' = state
        /\ classList' = classList
        /\ LET element == At(results, selectedIndex)
               linked == /\ element # Undefined
                         /\ element.k = "block"
                         /\ HasAnchor(element.b)
           IN /\ ~linked => location' = location /\ effect'.opened = Null
              /\ linked => \/ location' = Anchor(element.b) /\ effect'.opened = Null
                           \/ location' = location /\ effect'.opened = Anchor(element.b)]_vars

\* Enter or Space was pressed on an entry without a link: nothing was
\* opened and the index is where it was.
C5_Witness ==
  /\ effect.op = "activate"
  /\ effect.log = "Link not found"
  /\ effect.opened = Null
  /\ location = ResultsPage
  /\ selectedIndex = effect.from

\* C6: a refresh that shrinks the list, to entries that are still there, so
\* that the old selectedIndex is at or past the new length runs
\* highlightSelected, and nothing is thrown.
C6_ShrinkRehighlights ==
  [][(/\ Ran("refresh")
      /\ Len(state'.searchResults) > 0
      /\ Len(state'.searchResults) < Len(results)
      /\ selectedIndex >= Len(state'.searchResults))
     => effect'.hl /\ ~effect'.threw]_vars

\* C7: a refresh replaces the results with the container's entries and
\* keeps selectedIndex; it runs the highlight step exactly when the previous
\* results.length <= selectedIndex, and otherwise leaves the highlight
\* marker where it is and does not scroll.
C7_RefreshHighlightPolicy ==
  [][Ran("refresh")
     => /\ state'.searchResults = EntriesOf(page'.blocks)
        /\ state'.selectedIndex = selectedIndex
        /\ effect'.hl <=> Len(results) <= selectedIndex
        /\ selectedIndex < Len(results)
             => classList' = classList /\ effect'.scroll = "none"]_vars

\* A refresh ran without the highlight step while an entry was highlighted.
C7_Witness ==
  /\ effect.op = "refresh"
  /\ ~effect.hl
  /\ Len(results) > 0
  /\ selectedIndex >= 0
  /\ MarkedInDocument # {}

\* C8: at most one element of the document carries the highlight marker,
\* and if one does it is results[selectedIndex].
C8_OneHighlightOnSelected ==
  /\ Cardinality(MarkedInDocument) <= 1
  /\ \A n \in MarkedInDocument : n = At(results, selectedIndex)

\* C9: when the container was absent at the start and a div with its id has
\* been inserted, directly or inside an inserted subtree, then once the
\* queued callbacks have run the wait has resolved with it and main has
\* registered the listeners.
C9_InsertedContainerActivates ==
  (HasContainer(page.shape) /\ Idle)
  => promise = [settled |-> TRUE, value |-> SearchDiv] /\ pc = "active"

\* C10: with focus in an INPUT or TEXTAREA, handleKeyDown leaves
\* selectedIndex, the result list, lastGKeyPress and the highlighted
\* elements as they are for every key event, navigates nowhere, and neither
\* scrolls nor prevents the default.
C10_InputIgnored ==
  (pc = "active" /\ Loaded)
  => \A event \in Events, name \in {"INPUT", "TEXTAREA"} :
       LET r == handleKeyDown(
                  event, name,
                  World(state, lastGKeyPress, classList, location), document,
                  now)
       IN /\ r.state = state
          /\ r.lastGKeyPress = lastGKeyPress
          /\ r.cls = classList
          /\ r.location = location
          /\ r.effect.opened = Null
          /\ r.effect.scroll = "none"
          /\ ~r.effect.hl
          /\ ~r.effect.prevented

\* A key was pressed inside an input while a timer was armed and an entry
\* other than the first was selected and highlighted.
C10_Witness ==
  /\ effect.op = "input"
  /\ lastGKeyPress = now
  /\ selectedIndex > 0
  /\ MarkedInDocument # {}

\* C11: when an element with the container's id that is no div exists at
\* startup (the one case in which the document-wide observer is off while
\* that element is the one with the id), the wait has resolved with null,
\* main never registers the listeners, state stays at its
\* initial value, nothing is highlighted and the page is never left.
C11_NonDivInert ==
  (getElementById(document, "search") = SearchForm
   /\ docObserver = "disconnected")
  => /\ promise = [settled |-> TRUE, value |-> Null]
     /\ pc \in {"awaiting", "inert"}
     /\ state = [searchResults |-> <<>>, selectedIndex |-> 0]
     /\ classList = {}
     /\ location = ResultsPage
     /\ effect.op = "none"

\* main has returned on null, and afterwards the page got a container with
\* entries and time went by.
C11_Witness ==
  /\ pc = "inert"
  /\ getElementById(document, "search") = SearchForm
  /\ extractSearchResults(document, SearchDiv) # <<>>
  /\ now > StartTime
  /\ state = [searchResults |-> <<>>, selectedIndex |-> 0]

\* C12: in the wrap revision, whenever the result list is non-empty,
\* selectedIndex is an integer with 0 <= selectedIndex < length.
C12_WrapIndexInRange ==
  Len(results) > 0
  => ~selectedIndex.nan /\ selectedIndex.n \in 0..(Len(results) - 1)

\* C13: while the result list is empty, no key event, whatever its key and
\* modifiers, changes which elements are highlighted, scrolls the page,
\* navigates or opens a tab.
C13_EmptyListNoOp ==
  (pc = "active" /\ Loaded /\ Len(results) = 0)
  => \A event \in Events :
       LET r == handleKeyDown(
                  event, "BODY",
                  World(state, lastGKeyPress, classList, location), document,
                  now)
       IN /\ r.cls = classList
          /\ r.effect.scroll = "none"
          /\ r.location = location
          /\ r.effect.opened = Null

\* G was pressed while the list was empty although the container holds
\* result blocks: highlightSelected ran and did nothing.
C13_Witness ==
  /\ effect.op = "last"
  /\ effect.hl
  /\ Len(results) = 0
  /\ page.blocks # <<>>
  /\ effect.scroll = "none"
  /\ MarkedInDocument = {}

\* What handleKeyDown does on an event outside an input when the g press
\* recorded in lastGKeyPress is forgotten, with the record restored where
\* the handler did not write it.
WithoutArm(event) ==
  LET r == handleKeyDown(event, "BODY",
                         World(state, 0, classList, location), document, now)
  IN [r EXCEPT !.lastGKeyPress = IF @ = 0 THEN lastGKeyPress ELSE @]

\* C14: a plain g pressed outside an input when no plain g was pressed
\* during the 1000 ms before it leaves state and the highlighted elements
\* as they are, scrolls nowhere and only records its time in lastGKeyPress;
\* and an arm that is 1000 ms old or older changes the effect of no later
\* key pressed without modifiers.
C14_LoneGOnlyArms ==
  /\ [][(/\ Ran("first") \/ Ran("arm")
         /\ gPressAt = 0 \/ now - gPressAt >= GDoublePressMs)
        => /\ effect'.op = "arm"
           /\ state' = state
           /\ classList' = classList
           /\ location' = location
           /\ effect'.scroll = "none"
           /\ lastGKeyPress' = now]_vars
  /\ []((pc = "active" /\ Loaded /\ now - lastGKeyPress >= GDoublePressMs)
        => \A key \in Keys :
             handleKeyDown(Unmodified(key), "BODY",
                           World(state, lastGKeyPress, classList, location),
                           document, now)
             = WithoutArm(Unmodified(key)))

\* A single g armed the double press, and k, pressed 1000 ms or more after
\* it, moved the selection up by one entry.
C14_Witness ==
  /\ effect.op = "prev"
  /\ gPressAt # 0
  /\ lastGKeyPress = gPressAt
  /\ now - gPressAt >= GDoublePressMs
  /\ effect.from > 0
  /\ selectedIndex = effect.from - 1

\* C15: a g or G keydown outside an input with meta or ctrl held leaves
\* state, the highlighted elements, lastGKeyPress and the location as they
\* are, scrolls nowhere and does not call preventDefault.
C15_ReservedGSuppressed ==
  (pc = "active" /\ Loaded)
  => \A event \in {e \in Events : e.key \in {"g", "G"}
                                    /\ (e.metaKey \/ e.ctrlKey)} :
       LET r == handleKeyDown(
                  event, "BODY",
                  World(state, lastGKeyPress, classList, location), document,
                  now)
       IN /\ r.state = state
          /\ r.cls = classList
          /\ r.lastGKeyPress = lastGKeyPress
          /\ r.location = location
          /\ r.effect.scroll = "none"
          /\ ~r.effect.hl
          /\ ~r.effect.prevented

\* g or G was pressed with meta or ctrl while the double press was armed
\* and the second entry was selected and highlighted: the selection, the
\* marker and the arm are where they were.
C15_Witness ==
  /\ effect.op = "reserved"
  /\ ~effect.prevented
  /\ lastGKeyPress # 0
  /\ lastGKeyPress + GDoublePressMs > now
  /\ Len(results) >= 2
  /\ selectedIndex = effect.from
  /\ selectedIndex = 1
  /\ MarkedInDocument = {At(results, 1)}

\* The divs with the container's id among the added nodes of the queued
\* records, in the order the callback meets them.
RECURSIVE Flatten(_)
Flatten(records) ==
  IF records = <<>> THEN <<>> ELSE Head(records) \o Flatten(Tail(records))
MatchesQueued ==
  SelectSeq(Flatten(docRecords),
            LAMBDA n : IsDiv(document, n) /\ document.el[n].id = "search")

\* C16: the promise of the wait, once settled, never changes; a callback
\* settles it with the first matching div of its batch and disconnects the
\* document-wide observer in the same step; a disconnected observer stays
\* disconnected and is queued no further records; and main leaves its
\* await once, never to return to it.
C16_OneShot ==
  [][/\ promise.settled => promise' = promise
     /\ (~promise.settled /\ promise'.settled)
          => /\ MatchesQueued # <<>>
             /\ promise'.value = MatchesQueued[1]
             /\ docObserver' = "disconnected"
     /\ promise.settled => docObserver = "disconnected"
     /\ docObserver = "disconnected"
          => docObserver' = "disconnected" /\ docRecords' = <<>>
     /\ pc # "awaiting" => pc' = pc
     /\ pc' # pc => promise.settled]_vars

\* The callback met two matching divs in one batch: the wait resolved with
\* the first, the observer is off and main has registered the listeners.
C16_Witness ==
  /\ page.shape = "twins"
  /\ promise = [settled |-> TRUE, value |-> SearchDiv]
  /\ docObserver = "disconnected"
  /\ docRecords = <<>>
  /\ pc = "active"
  /\ getElementById(document, "search") = SearchDiv
  /\ IsDiv(document, SearchTwin)

\* The element and its ancestors, nearest first.
RECURSIVE SelfAndAncestors(_, _)
SelfAndAncestors(d, n) ==
  IF n = Null THEN <<>>
  ELSE <<n>> \o SelfAndAncestors(d, d.el[n].parentElement)

\* The nearest ancestor-or-self that carries a lang attribute, or Null.
NearestLang(d, n) ==
  LET carriers == SelectSeq(SelfAndAncestors(d, n), LAMBDA m : d.el[m].lang)
  IN IF carriers = <<>> THEN Null ELSE carriers[1]

\* One entry per heading whose nearest lang carrier exists and is a DIV.
RECURSIVE EntriesFor(_, _)
EntriesFor(d, headings) ==
  IF headings = <<>> THEN <<>>
  ELSE LET carrier == NearestLang(d, Head(headings))
       IN (IF carrier # Null /\ d.el[carrier].tagName = "DIV"
           THEN <<carrier>> ELSE <<>>)
          \o EntriesFor(d, Tail(headings))

\* C17: extractSearchResults returns, in the document order of the
\* container's h3 headings, one entry per heading whose nearest
\* ancestor-or-self with a lang attribute exists and is a DIV, namely that
\* element, and nothing for any other heading.
C17_ExtractExact ==
  effect.op = "extract"
  => results = EntriesFor(TreeDoc(page),
                          querySelectorAllTag(TreeDoc(page), SearchDiv, "H3"))

\* C18: once main has registered the observer of the container,
\* state.searchResults is what extractSearchResults returns for the
\* container as it is now (a mutation and its notification are one step,
\* so none is ever pending between steps).
C18_ResultsMirrorContainer ==
  (pc = "active" /\ Loaded)
  => results = extractSearchResults(document, promise.value)

\* C19: a refresh that takes the result list from empty to non-empty
\* leaves exactly one entry of the new list carrying the highlight marker.
C19_FirstResultsHighlighted ==
  [][(/\ Ran("refresh")
      /\ Len(results) = 0
      /\ Len(state'.searchResults) > 0)
     => Cardinality({i \in 1..Len(state'.searchResults) :
                       state'.searchResults[i] \in classList'}) = 1]_vars

\* C20: every entry extractSearchResults returns for a container that is
\* in the document is the container or a descendant of the container,
\* whichever elements carry a lang attribute.
C20_EntriesInsideContainer ==
  (effect.op = "extract" /\ page.attached)
  => \A i \in 1..Len(results) :
       results[i] = SearchDiv
       \/ IsDescendant(TreeDoc(page), results[i], SearchDiv)

====
